---- MODULE Spec2Model ----
(***************************************************************************)
(* A model of update_freebies.py: the pipeline main() that reconciles the  *)
(* GamerPower feed with the Firestore document all_freebies/games, looks   *)
(* new offers up in IGDB and sends FCM notifications.                      *)
(*                                                                         *)
(* A text (title, name) is a sequence of characters, each a string.        *)
(* A game is a Python dict: a function from its keys to its values.        *)
(***************************************************************************)
EXTENDS Integers, Sequences, FiniteSets, TLC

\* ------------------------------------------------------------------------
\* Bounds of the model
\* ------------------------------------------------------------------------
\* last evaluation day; days are 0..MaxDay
MaxDay == 1
\* pipeline runs explored
MaxRuns == 2
\* longest IGDB result list
MaxCands == 2
\* failed requests (GamerPower, IGDB, Firestore, FCM) over all runs
MaxFaults == 1
\* edits made by hand on the stored document
MaxEdits == 2
\* longest title, in characters, given to normalize_title on its own
MaxLen == 3
\* most words after the name in a title given to is_confusing_match on its own
MaxWords == 2

Days == 0..MaxDay

\* ------------------------------------------------------------------------
\* Characters
\* ------------------------------------------------------------------------
LowerOf ==
  "A" :> "a" @@ "B" :> "b" @@ "C" :> "c" @@ "D" :> "d" @@ "E" :> "e" @@
  "F" :> "f" @@ "G" :> "g" @@ "H" :> "h" @@ "I" :> "i" @@ "J" :> "j" @@
  "K" :> "k" @@ "L" :> "l" @@ "M" :> "m" @@ "N" :> "n" @@ "O" :> "o" @@
  "P" :> "p" @@ "Q" :> "q" @@ "R" :> "r" @@ "S" :> "s" @@ "T" :> "t" @@
  "U" :> "u" @@ "V" :> "v" @@ "W" :> "w" @@ "X" :> "x" @@ "Y" :> "y" @@
  "Z" :> "z" @@ "N~" :> "n~" @@ "AE" :> "ae"

\* U+0301 COMBINING ACUTE ACCENT and U+0303 COMBINING TILDE
CombiningChars == {"U+0301", "U+0303"}

\* unicodedata.normalize("NFKD", ch) of the characters that decompose:
\* e-acute, N-tilde, n-tilde, the trade mark sign, the roman numeral two.
Decomposition ==
  "e'" :> <<"e", "U+0301">> @@ "N~" :> <<"N", "U+0303">> @@
  "n~" :> <<"n", "U+0303">> @@ "(TM)" :> <<"T", "M">> @@
  "U+2161" :> <<"I", "I">>

\* string.punctuation ("U+0060" is the grave accent)
Punctuation ==
  {"!", "\"", "#", "$", "%", "&", "'", "(", ")", "*", "+", ",", "-", ".",
   "/", ":", ";", "<", "=", ">", "?", "@", "[", "\\", "]", "^", "_", "U+0060",
   "{", "|", "}", "~"}

\* what str.split() and \s take as white space
Whitespace == {" ", "\t", "\n"}

Digits == {"0", "1", "2", "3", "4", "5", "6", "7", "8", "9"}

\* The character class of line 68 as the file stores it: U+201A, N-tilde,
\* the cent sign, the not sign, AE, the copyright sign. The trade mark sign
\* "(TM)" and the registered sign "(R)" are not in it.
GlyphClass == {"U+201A", "N~", "(c)", "(not)", "AE", "(C)"}

_ROMAN_MAP ==
  <<"i">> :> <<"1">> @@ <<"i","i">> :> <<"2">> @@ <<"i","i","i">> :> <<"3">> @@
  <<"i","v">> :> <<"4">> @@ <<"v">> :> <<"5">> @@ <<"v","i">> :> <<"6">> @@
  <<"v","i","i">> :> <<"7">> @@ <<"v","i","i","i">> :> <<"8">> @@
  <<"i","x">> :> <<"9">> @@ <<"x">> :> <<"1","0">> @@
  <<"x","i">> :> <<"1","1">> @@ <<"x","i","i">> :> <<"1","2">> @@
  <<"x","i","i","i">> :> <<"1","3">> @@ <<"x","i","v">> :> <<"1","4">> @@
  <<"x","v">> :> <<"1","5">> @@ <<"x","v","i">> :> <<"1","6">> @@
  <<"x","v","i","i">> :> <<"1","7">> @@ <<"x","v","i","i","i">> :> <<"1","8">> @@
  <<"x","i","x">> :> <<"1","9">> @@ <<"x","x">> :> <<"2","0">>

_EDITION_KEYWORDS ==
  { <<"r","e","m","a","s","t","e","r","e","d">>,
    <<"d","e","f","i","n","i","t","i","v","e">>,
    <<"g","o","t","y">>,
    <<"c","o","m","p","l","e","t","e">>,
    <<"h","d">>,
    <<"u","l","t","i","m","a","t","e">>,
    <<"a","n","n","i","v","e","r","s","a","r","y">>,
    <<"c","o","l","l","e","c","t","i","o","n">>,
    <<"t","r","i","l","o","g","y">>,
    <<"b","u","n","d","l","e">>,
    <<"d","i","r","e","c","t","o","r">>,
    <<"r","e","d","u","x">>,
    <<"r","e","l","o","a","d","e","d">>,
    <<"r","e","m","a","k","e">> }

\* ------------------------------------------------------------------------
\* normalize_title and is_confusing_match
\* ------------------------------------------------------------------------
RECURSIVE Flatten(_)
Flatten(ss) == IF ss = <<>> THEN <<>> ELSE Head(ss) \o Flatten(Tail(ss))

\* unicodedata.normalize("NFKD", title)
Nfkd(t) ==
  Flatten([k \in DOMAIN t |->
             IF t[k] \in DOMAIN Decomposition THEN Decomposition[t[k]]
             ELSE <<t[k]>>])

\* "".join(ch for ch in t if not unicodedata.combining(ch))
StripCombining(t) == SelectSeq(t, LAMBDA ch : ch \notin CombiningChars)

\* t.lower()
Lower(t) ==
  [k \in DOMAIN t |-> IF t[k] \in DOMAIN LowerOf THEN LowerOf[t[k]] ELSE t[k]]

\* t.replace("&", " and ")
ReplaceAmp(t) ==
  Flatten([k \in DOMAIN t |->
             IF t[k] = "&" THEN <<" ", "a", "n", "d", " ">> ELSE <<t[k]>>])

\* re.sub of the glyph class by ""
StripGlyphs(t) == SelectSeq(t, LAMBDA ch : ch \notin GlyphClass)

\* re.sub of every punctuation character by " "
PunctToSpace(t) ==
  [k \in DOMAIN t |-> IF t[k] \in Punctuation THEN " " ELSE t[k]]

\* t.split(): the maximal runs of characters that are not white space
RECURSIVE SplitFrom(_, _, _)
SplitFrom(t, k, cur) ==
  IF k > Len(t) THEN (IF cur = <<>> THEN <<>> ELSE <<cur>>)
  ELSE IF t[k] \in Whitespace
       THEN (IF cur = <<>> THEN <<>> ELSE <<cur>>) \o SplitFrom(t, k + 1, <<>>)
       ELSE SplitFrom(t, k + 1, Append(cur, t[k]))

Split(t) == SplitFrom(t, 1, <<>>)

\* " ".join(tokens)
RECURSIVE Join(_)
Join(tokens) ==
  IF tokens = <<>> THEN <<>>
  ELSE IF Len(tokens) = 1 THEN tokens[1]
  ELSE tokens[1] \o <<" ">> \o Join(Tail(tokens))

RomanTokens(tokens) ==
  [k \in DOMAIN tokens |->
     IF tokens[k] \in DOMAIN _ROMAN_MAP THEN _ROMAN_MAP[tokens[k]] ELSE tokens[k]]

\* line 68 moved after line 72: the glyphs are stripped from the joined tokens
normalize_title_strip_last(title) ==
  IF title = <<>> THEN <<>>
  ELSE Join(Split(StripGlyphs(Join(RomanTokens(Split(
         PunctToSpace(ReplaceAmp(Lower(StripCombining(Nfkd(title)))))
       ))))))

normalize_title(title) ==
  IF title = <<>> THEN <<>>
  ELSE Join(Split(Join(RomanTokens(Split(
         PunctToSpace(StripGlyphs(ReplaceAmp(Lower(StripCombining(Nfkd(title))))))
       )))))

\* re.findall(r"\d+", s) is not empty
HasDigits(s) == \E k \in DOMAIN s : s[k] \in Digits

\* kw in s
Contains(s, kw) ==
  \E k \in 0..(Len(s) - Len(kw)) : SubSeq(s, k + 1, k + Len(kw)) = kw

\* lines 78-79 left out: the digits and keywords are looked for in the titles
\* as given, in small letters
is_confusing_match_raw(gp_title, igdb_name) ==
  LET gp_norm == Lower(gp_title)
      igdb_norm == Lower(igdb_name)
  IN  \/ HasDigits(igdb_norm) /\ ~HasDigits(gp_norm)
      \/ \E kw \in _EDITION_KEYWORDS :
           Contains(igdb_norm, kw) /\ ~Contains(gp_norm, kw)

is_confusing_match(gp_title, igdb_name) ==
  LET gp_norm == normalize_title(gp_title)
      igdb_norm == normalize_title(igdb_name)
  IN  \/ HasDigits(igdb_norm) /\ ~HasDigits(gp_norm)
      \/ \E kw \in _EDITION_KEYWORDS :
           Contains(igdb_norm, kw) /\ ~Contains(gp_norm, kw)

\* ------------------------------------------------------------------------
\* Data: offers, catalog entries, games
\* ------------------------------------------------------------------------
\* gamerpower_id of the offers of the feed, in the order the feed lists them
IdOrder == <<"A", "B">>
Ids == {IdOrder[k] : k \in DOMAIN IdOrder}

\* Python None, and the values line 395 takes as empty: None, "", [], {}
None == "None"
EmptyValues == {None, "", "[]", "{}"}

\* the characters of the titles and names that occur
Spell ==
  "Doom" :> <<"D","o","o","m">> @@
  "DOOM" :> <<"D","O","O","M">> @@
  "Doom 2" :> <<"D","o","o","m"," ","2">> @@
  "Risk II" :> <<"R","i","s","k"," ","I","I">> @@
  "Risk 2" :> <<"R","i","s","k"," ","2">> @@
  "" :> <<>> @@ "None" :> <<>>

\* the cleaned title, the store and the claim link of each offer
TitleOf == "A" :> "Doom" @@ "B" :> "Risk II"
StoreOf == "A" :> "Steam" @@ "B" :> "GoG"
UrlOf == "A" :> "https://gp/a" @@ "B" :> "https://gp/b"
\* the worth the feed lists for an offer that ends on day d
WorthOn(d) == IF d % 2 = 0 THEN "9.99" ELSE "19.99"

\* what the IGDB search may return: entries of resp.json()
Catalog ==
  { [id |-> "11", name |-> "DOOM", summary |-> "Rip and tear", platforms |-> {"6", "48"}],
    [id |-> "12", name |-> "DOOM", summary |-> "Console port", platforms |-> {"48"}],
    [id |-> "21", name |-> "Risk 2", summary |-> "World conquest", platforms |-> {"14"}] }

RECURSIVE SeqsUpTo(_, _)
SeqsUpTo(S, n) ==
  IF n = 0 THEN {<<>>}
  ELSE LET shorter == SeqsUpTo(S, n - 1)
       IN  shorter \cup {Append(q, x) : q \in shorter, x \in S}

\* an IGDB response: a result list, or a request that raised
FetchError == [ok |-> FALSE, results |-> <<>>]
Responses ==
  {[ok |-> TRUE, results |-> r] : r \in SeqsUpTo(Catalog, MaxCands)} \cup {FetchError}

\* dict.get(key): None when the key is missing
Get(d, key) == IF key \in DOMAIN d THEN d[key] ELSE None

\* Python truth of a text value read from a game
Truthy(v) == v \notin {None, "", "[]", "{}"}

\* the empty dict
EmptyDict == <<>>

\* the entry fetch_gamerpower_games builds for an offer
GpGame(gid, expiry) ==
  [gamerpower_id |-> gid, title |-> TitleOf[gid], worth |-> WorthOn(expiry),
   store |-> StoreOf[gid], expiry_date |-> expiry,
   open_giveaway_url |-> UrlOf[gid]]

\* the games of the offers S in feed order
FeedOf(S, expiry) ==
  LET present == SelectSeq(IdOrder, LAMBDA g : g \in S)
  IN  [k \in DOMAIN present |-> GpGame(present[k], expiry[present[k]])]

Feeds == UNION { {FeedOf(S, e) : e \in [S -> Days]} : S \in SUBSET Ids }

IdsOf(games) == {games[k]["gamerpower_id"] : k \in DOMAIN games}

\* {g["gamerpower_id"]: g for g in games}: the last entry of an id wins
MapOf(games) ==
  [gid \in IdsOf(games) |->
     games[CHOOSE k \in DOMAIN games :
             /\ games[k]["gamerpower_id"] = gid
             /\ \A j \in DOMAIN games : games[j]["gamerpower_id"] = gid => j <= k]]

API_FIELDS == {"expiry_date", "worth", "store", "open_giveaway_url"}

transform_igdb(raw_game) ==
  [id |-> raw_game.id, name |-> raw_game.name, summary |-> raw_game.summary]

merge_game_data(gp_game, igdb_data) ==
  LET merged == igdb_data @@ gp_game
  IN  [merged EXCEPT !["open_giveaway_url"] = Get(gp_game, "open_giveaway_url")]

\* lines 389-398: the game of an offer that was enriched again
PreserveManualEdits(merged_game, existing) ==
  [key \in DOMAIN merged_game |->
     IF key \in API_FIELDS THEN merged_game[key]
     ELSE IF key \in DOMAIN existing /\ existing[key] \notin EmptyValues
          THEN existing[key]
          ELSE merged_game[key]]

\* lines 411-418: the game of an offer that is not enriched again
RefreshApiFields(existing, gp_game) ==
  [key \in DOMAIN existing |->
     IF key \in DOMAIN gp_game /\ key \in API_FIELDS THEN gp_game[key]
     ELSE existing[key]]

PC_PLATFORMS == {"6", "14", "92"}

NO_MATCH == "No strict safe IGDB match"
FETCH_ERROR == "IGDB fetch error"

CONFUSING == "Confusing match"
NON_PC == "Non-PC platform match"

\* lines 204-206 with return {} in the place of continue: the first candidate
\* of the right name that is not for PC ends the search
RECURSIVE MatchFrom_stops_at_rejection(_, _, _, _)
MatchFrom_stops_at_rejection(results, k, title, normalized_target) ==
  IF k > Len(results)
  THEN [data |-> EmptyDict, reasons |-> <<NO_MATCH>>]
  ELSE LET r == results[k]
           candidate_name == r.name
           rest == MatchFrom_stops_at_rejection(results, k + 1, title, normalized_target)
       IN  IF normalize_title(Spell[candidate_name]) = normalized_target
           THEN IF is_confusing_match(Spell[title], Spell[candidate_name])
                THEN [rest EXCEPT !.reasons = <<CONFUSING>> \o @]
                ELSE IF r.platforms \cap PC_PLATFORMS = {}
                     THEN [data |-> EmptyDict, reasons |-> <<NON_PC>>]
                     ELSE [data |-> transform_igdb(r), reasons |-> <<>>]
           ELSE rest

\* The loop of fetch_igdb_data over results[k..]: the data returned and the
\* reasons appended to the skipped file on the way.
RECURSIVE MatchFrom(_, _, _, _)
MatchFrom(results, k, title, normalized_target) ==
  IF k > Len(results)
  THEN [data |-> EmptyDict, reasons |-> <<NO_MATCH>>]
  ELSE LET r == results[k]
           candidate_name == r.name
           rest == MatchFrom(results, k + 1, title, normalized_target)
       IN  IF normalize_title(Spell[candidate_name]) = normalized_target
           THEN IF is_confusing_match(Spell[title], Spell[candidate_name])
                THEN [rest EXCEPT !.reasons = <<CONFUSING>> \o @]
                ELSE IF r.platforms \cap PC_PLATFORMS = {}
                     THEN [rest EXCEPT !.reasons = <<NON_PC>> \o @]
                     ELSE [data |-> transform_igdb(r), reasons |-> <<>>]
           ELSE rest

\* lines 212-214 as "except: return {}": a failed lookup leaves no entry
fetch_igdb_data_except_pass(title, normalized_target, response) ==
  IF ~response.ok
  THEN [data |-> EmptyDict, reasons |-> <<>>]
  ELSE MatchFrom(response.results, 1, title, normalized_target)

fetch_igdb_data(title, normalized_target, response) ==
  IF ~response.ok
  THEN [data |-> EmptyDict, reasons |-> <<FETCH_ERROR>>]
  ELSE MatchFrom(response.results, 1, title, normalized_target)

\* datetime.fromisoformat(expiry_date).date() == today
is_expiring_today(expiry_date, day) == expiry_date = day

MANUAL_GAMES == <<>>

\* ------------------------------------------------------------------------
\* State
\* ------------------------------------------------------------------------
VARIABLES
  firestore,        \* the games array of the document all_freebies/games
  today,            \* datetime.now(timezone.utc).date()
  pc,               \* where main is: idle, read, enrich, remind, write, done
  gp_games,         \* main's gp_games
  firestore_games,  \* main's firestore_games
  enriched_games,   \* main's enriched_games
  idx,              \* position of the loop of line 364 in gp_games
  skipped,          \* what this run appended to skipped_games.json
  sent,             \* what this run handed to messaging.send
  looked,           \* the offers this run looked up in IGDB
  failedLookups,    \* the offers whose IGDB request raised in this run
  fetched,          \* the GamerPower request of this run succeeded
  readOk,           \* the Firestore read of this run succeeded
  wrote,            \* "no", "ok" or "failed": the Firestore write of this run
  prevStore,        \* firestore when this run began
  runs,             \* runs begun
  faults,           \* requests that have failed
  edits,            \* edits made by hand
  newOffers,        \* NewOffer notifications sent per offer, over all runs
  everyFeed,        \* the offers every feed so far has reported
  flagged,          \* the offers whose stored game has had reminder_sent = True
  rerun,            \* this run repeats, at once and with the same feed, a run
                    \* that began with an empty document
  undelivered,      \* the notifications of earlier runs whose delivery failed
  unmatched,        \* the offers of this feed that earlier runs looked up
                    \* without finding an acceptable match, ever since a run
                    \* wrote its games without them
  call              \* a helper called on its own: its name, arguments, results

vars == <<firestore, today, pc, gp_games, firestore_games, enriched_games, idx,
          skipped, sent, looked, failedLookups, fetched, readOk, wrote, prevStore, runs,
          faults, edits, newOffers, everyFeed, flagged, rerun, undelivered,
          unmatched, call>>

\* the variables of main and of its surroundings
main_vars == <<firestore, today, pc, gp_games, firestore_games, enriched_games,
               idx, skipped, sent, looked, failedLookups, fetched, readOk, wrote,
               prevStore, runs, faults, edits, newOffers, everyFeed, flagged,
               rerun, undelivered, unmatched>>

\* no helper is called on its own
NoCall == [fn |-> "none"]

locals == <<gp_games, firestore_games, enriched_games, idx>>
history == <<newOffers, everyFeed, flagged, rerun, undelivered, unmatched>>

\* lines 343-347
firestore_ids == IdsOf(firestore_games)
gp_ids == IdsOf(gp_games)
\* line 346 without the subtraction: every offer of the feed counts as new
added_ids_whole_feed == gp_ids

added_ids == gp_ids \ firestore_ids
removed_ids == firestore_ids \ gp_ids
\* lines 372 and 387: the offers of the feed that main finds in firestore_map
retained_ids == {gid \in gp_ids : gid \in DOMAIN MapOf(firestore_games)}

\* lines 349-351 left out: main never returns early
NoChanges_never(added, removed) == FALSE

\* line 349 as a comparison of sizes: as many offers came as went
NoChanges_same_count(added, removed) == Cardinality(added) = Cardinality(removed)

\* line 349
NoChanges(added, removed) == added = {} /\ removed = {}

\* line 332 left out: main goes on with an empty feed
NothingFetched_never(games) == FALSE

\* line 332
NothingFetched(games) == games = <<>>

FlaggedIn(games) ==
  {games[k]["gamerpower_id"] :
     k \in {j \in DOMAIN games : "reminder_sent" \in DOMAIN games[j]
                                   /\ games[j]["reminder_sent"] = TRUE}}

Init ==
  /\ firestore = <<>>
  /\ today = 0
  /\ pc = "idle"
  /\ gp_games = <<>>
  /\ firestore_games = <<>>
  /\ enriched_games = <<>>
  /\ idx = 0
  /\ skipped = <<>>
  /\ sent = {}
  /\ looked = {}
  /\ failedLookups = {}
  /\ fetched = FALSE
  /\ readOk = FALSE
  /\ wrote = "no"
  /\ prevStore = <<>>
  /\ runs = 0
  /\ faults = 0
  /\ edits = 0
  /\ newOffers = [g \in Ids |-> 0]
  /\ everyFeed = Ids
  /\ flagged = {}
  /\ rerun = FALSE
  /\ undelivered = {}
  /\ unmatched = {}
  /\ call = NoCall

\* ------------------------------------------------------------------------
\* main
\* ------------------------------------------------------------------------
\* lines 329-336 with fetch_gamerpower_games: a failed request yields [].
FetchFeed ==
  /\ UNCHANGED call
  /\ pc \in {"idle", "done"}
  /\ runs < MaxRuns
  /\ \E ok \in BOOLEAN, feed \in Feeds :
       /\ ok \/ (feed = <<>> /\ faults < MaxFaults)
       /\ faults' = IF ok THEN faults ELSE faults + 1
       /\ fetched' = ok
       /\ gp_games' = feed
       /\ pc' = IF NothingFetched(feed) THEN "done" ELSE "read"
       /\ everyFeed' = everyFeed \cap IdsOf(feed)
       /\ unmatched' =
            LET missed == looked \ IdsOf(enriched_games)
                left_out == IF wrote = "ok" THEN missed ELSE {}
            IN  (left_out \cup (unmatched \cap missed)) \cap IdsOf(feed)
       /\ rerun' = (pc = "done" /\ fetched /\ ok /\ prevStore = <<>>
                      /\ ~NothingFetched(feed) /\ feed = gp_games)
  /\ undelivered' = undelivered \cup {<<e.kind, e.id>> : e \in {x \in sent : ~x.ok}}
  /\ runs' = runs + 1
  /\ prevStore' = firestore
  /\ firestore_games' = <<>>
  /\ enriched_games' = <<>>
  /\ idx' = 0
  /\ skipped' = <<>>
  /\ sent' = {}
  /\ looked' = {}
  /\ failedLookups' = {}
  /\ readOk' = FALSE
  /\ wrote' = "no"
  /\ UNCHANGED <<firestore, today, edits, newOffers, flagged>>

\* lines 338-351 with get_firestore_games: a failed read yields [].
ReadStore ==
  /\ UNCHANGED call
  /\ pc = "read"
  /\ \E ok \in BOOLEAN :
       LET games == IF ok THEN firestore ELSE <<>>
           added == IdsOf(gp_games) \ IdsOf(games)
           removed == IdsOf(games) \ IdsOf(gp_games)
       IN  /\ ok \/ faults < MaxFaults
           /\ faults' = IF ok THEN faults ELSE faults + 1
           /\ readOk' = ok
           /\ firestore_games' = games
           /\ IF NoChanges(added, removed)
              THEN pc' = "done" /\ idx' = idx
              ELSE /\ pc' = IF Len(gp_games) = 0 THEN "remind" ELSE "enrich"
                   /\ idx' = 1
  /\ UNCHANGED <<firestore, today, gp_games, enriched_games, skipped, sent,
                 looked, failedLookups, fetched, wrote, prevStore, runs, edits, history>>

\* line 375 without its second test: a stored game with an id is kept as it is
should_enrich_id_only(gp_id, is_new_game, firestore_map) ==
  \/ is_new_game
  \/ /\ gp_id \in DOMAIN firestore_map
     /\ ~Truthy(Get(firestore_map[gp_id], "id"))

\* lines 368-376
should_enrich(gp_id, is_new_game, firestore_map) ==
  \/ is_new_game
  \/ /\ gp_id \in DOMAIN firestore_map
     /\ \/ ~Truthy(Get(firestore_map[gp_id], "id"))
        \/ ~Truthy(Get(firestore_map[gp_id], "name"))

\* game[key] = value
SetKey(game, key, value) == (key :> value) @@ game

\* One round of the loop of lines 364-419, with the IGDB response and the
\* outcome of messaging.send drawn.
EnrichOne ==
  /\ UNCHANGED call
  /\ pc = "enrich"
  /\ LET gp_game == gp_games[idx]
         gp_id == gp_game["gamerpower_id"]
         firestore_map == MapOf(firestore_games)
         is_new_game == gp_id \in added_ids
     IN  IF should_enrich(gp_id, is_new_game, firestore_map)
         THEN \E response \in Responses, delivered \in BOOLEAN :
                LET gp_norm == normalize_title(Spell[gp_game["title"]])
                    found == fetch_igdb_data(gp_game["title"], gp_norm, response)
                    merged_game == merge_game_data(gp_game, found.data)
                    failed == (IF response.ok THEN 0 ELSE 1) + (IF delivered THEN 0 ELSE 1)
                IN  /\ faults + failed <= MaxFaults
                    /\ faults' = faults + failed
                    /\ looked' = looked \cup {gp_id}
                    /\ failedLookups' =
                         IF response.ok THEN failedLookups ELSE failedLookups \cup {gp_id}
                    /\ skipped' = skipped \o
                         [k \in DOMAIN found.reasons |->
                            [id |-> gp_id, reason |-> found.reasons[k]]]
                    /\ IF DOMAIN found.data # {}
                       THEN /\ enriched_games' =
                                 Append(enriched_games,
                                        IF gp_id \in DOMAIN firestore_map
                                        THEN PreserveManualEdits(merged_game, firestore_map[gp_id])
                                        ELSE merged_game)
                            /\ IF is_new_game
                               THEN /\ sent' = sent \cup
                                         {[kind |-> "NewOffer", id |-> gp_id, ok |-> delivered]}
                                    /\ newOffers' = [newOffers EXCEPT ![gp_id] = @ + 1]
                               ELSE delivered /\ UNCHANGED <<sent, newOffers>>
                       ELSE delivered /\ UNCHANGED <<enriched_games, sent, newOffers>>
         ELSE /\ enriched_games' =
                   Append(enriched_games, RefreshApiFields(firestore_map[gp_id], gp_game))
              /\ UNCHANGED <<looked, failedLookups, skipped, sent, newOffers, faults>>
  /\ idx' = idx + 1
  /\ pc' = IF idx = Len(gp_games) THEN "remind" ELSE "enrich"
  /\ UNCHANGED <<firestore, today, gp_games, firestore_games, fetched, readOk,
                 wrote, prevStore, runs, edits, everyFeed, flagged, rerun,
                 undelivered, unmatched>>

\* old_entry.get("reminder_sent", False) of lines 284-285
already_sent(firestore_map, game) ==
  LET gid == game["gamerpower_id"]
  IN  /\ gid \in DOMAIN firestore_map
      /\ "reminder_sent" \in DOMAIN firestore_map[gid]
      /\ firestore_map[gid]["reminder_sent"] = TRUE

\* the positions in games of the reminders send_expiry_reminders sends
DueReminders(games, stored, day) ==
  {k \in DOMAIN games :
     /\ is_expiring_today(games[k]["expiry_date"], day)
     /\ ~already_sent(MapOf(stored), games[k])}

\* line 304 moved before messaging.send: the flag is set on every reminder due
MarkSent_before_send(games, due, delivered) ==
  [k \in DOMAIN games |->
     IF k \in due THEN SetKey(games[k], "reminder_sent", TRUE) ELSE games[k]]

\* lines 301-306: game["reminder_sent"] = True after a send that did not raise
MarkSent(games, due, delivered) ==
  [k \in DOMAIN games |->
     IF k \in delivered THEN SetKey(games[k], "reminder_sent", TRUE) ELSE games[k]]

\* line 423 with send_expiry_reminders; delivered holds the positions whose
\* messaging.send succeeds.
SendReminders ==
  /\ UNCHANGED call
  /\ pc = "remind"
  /\ LET due == DueReminders(enriched_games, firestore_games, today)
     IN  \E delivered \in SUBSET due :
           /\ faults + Cardinality(due \ delivered) <= MaxFaults
           /\ faults' = faults + Cardinality(due \ delivered)
           /\ enriched_games' = MarkSent(enriched_games, due, delivered)
           /\ sent' = sent \cup
                {[kind |-> "ExpiresToday", id |-> enriched_games[k]["gamerpower_id"],
                  ok |-> (k \in delivered)] : k \in due}
  /\ pc' = "write"
  /\ UNCHANGED <<firestore, today, gp_games, firestore_games, idx, skipped,
                 looked, failedLookups, fetched, readOk, wrote, prevStore, runs, edits, history>>

\* lines 425-433 with update_firestore_games: a failed write is only printed.
WriteStore ==
  /\ UNCHANGED call
  /\ pc = "write"
  /\ \E ok \in BOOLEAN :
       /\ ok \/ faults < MaxFaults
       /\ faults' = IF ok THEN faults ELSE faults + 1
       /\ firestore' = IF ok THEN MANUAL_GAMES \o enriched_games ELSE firestore
       /\ wrote' = IF ok THEN "ok" ELSE "failed"
  /\ flagged' = flagged \cup FlaggedIn(firestore')
  /\ pc' = "done"
  /\ UNCHANGED <<today, locals, skipped, sent, looked, failedLookups, fetched, readOk,
                 prevStore, runs, edits, newOffers, everyFeed, rerun, undelivered,
                 unmatched>>

\* ------------------------------------------------------------------------
\* Between runs
\* ------------------------------------------------------------------------
\* A day passes. A run is short: the date does not change during it.
Tick ==
  /\ UNCHANGED call
  /\ pc \in {"idle", "done"}
  /\ today < MaxDay
  /\ today' = today + 1
  /\ pc' = "idle"
  /\ UNCHANGED <<firestore, locals, skipped, sent, looked, failedLookups, fetched, readOk,
                 wrote, prevStore, runs, faults, edits, history>>

\* The edits made by hand on the stored document (lines 359, 370 and 386):
\* a note is added, the IGDB name is blanked. They are made between runs.
ManualEdits(game) ==
  { SetKey(game, "notes", "hand-picked blurb"),
    SetKey(game, "name", "") } \ {game}

ManualEdit ==
  /\ UNCHANGED call
  /\ pc \in {"idle", "done"}
  /\ edits < MaxEdits
  /\ edits' = edits + 1
  /\ \E k \in DOMAIN firestore :
       \E edited \in ManualEdits(firestore[k]) :
         firestore' = [firestore EXCEPT ![k] = edited]
  /\ pc' = "idle"
  /\ UNCHANGED <<today, locals, skipped, sent, looked, failedLookups, fetched, readOk, wrote,
                 prevStore, runs, faults, history>>

Next ==
  \/ FetchFeed
  \/ ReadStore
  \/ EnrichOne
  \/ SendReminders
  \/ WriteStore
  \/ Tick
  \/ ManualEdit

Spec == Init /\ [][Next]_vars

\* The runs in which no request fails: GamerPower, IGDB, Firestore and FCM
\* all answer.
InitReliable ==
  /\ firestore = <<>>
  /\ today = 0
  /\ pc = "idle"
  /\ gp_games = <<>>
  /\ firestore_games = <<>>
  /\ enriched_games = <<>>
  /\ idx = 0
  /\ skipped = <<>>
  /\ sent = {}
  /\ looked = {}
  /\ failedLookups = {}
  /\ fetched = FALSE
  /\ readOk = FALSE
  /\ wrote = "no"
  /\ prevStore = <<>>
  /\ runs = 0
  /\ faults = MaxFaults
  /\ edits = 0
  /\ newOffers = [g \in Ids |-> 0]
  /\ everyFeed = Ids
  /\ flagged = {}
  /\ rerun = FALSE
  /\ undelivered = {}
  /\ unmatched = {}
  /\ call = NoCall

SpecReliable == InitReliable /\ [][Next]_vars

\* ------------------------------------------------------------------------
\* The helpers on their own
\* ------------------------------------------------------------------------
\* main has not been called
Quiescent ==
  /\ firestore = <<>>
  /\ today = 0
  /\ pc = "idle"
  /\ gp_games = <<>>
  /\ firestore_games = <<>>
  /\ enriched_games = <<>>
  /\ idx = 0
  /\ skipped = <<>>
  /\ sent = {}
  /\ looked = {}
  /\ failedLookups = {}
  /\ fetched = FALSE
  /\ readOk = FALSE
  /\ wrote = "no"
  /\ prevStore = <<>>
  /\ runs = 0
  /\ faults = 0
  /\ edits = 0
  /\ newOffers = [g \in Ids |-> 0]
  /\ everyFeed = Ids
  /\ flagged = {}
  /\ rerun = FALSE
  /\ undelivered = {}
  /\ unmatched = {}

\* the characters of the titles given to normalize_title: a capital and a
\* small roman digit, the ampersand, a punctuation mark, a space, e-acute, the
\* copyright sign, the trade mark sign, the roman numeral two, a digit
TitleChars == {"I", "x", "&", "-", " ", "e'", "(C)", "(TM)", "U+2161", "2"}

Texts == SeqsUpTo(TitleChars, MaxLen)

InitNormalize ==
  /\ Quiescent
  /\ call \in {[fn |-> "normalize_title", title |-> t, out |-> <<>>] : t \in Texts}

\* normalize_title is called on the title, then on what it returned
NormalizeCall ==
  /\ call.fn = "normalize_title"
  /\ Len(call.out) < 2
  /\ call' = [call EXCEPT !.out =
                 Append(@, normalize_title(IF @ = <<>> THEN call.title ELSE @[Len(@)]))]
  /\ UNCHANGED main_vars

SpecNormalize == InitNormalize /\ [][NormalizeCall]_vars

\* what the IGDB search may return to fetch_igdb_data called on its own: the
\* catalog, a sequel for PC and a console game under the roman spelling
Candidates ==
  Catalog \cup
  { [id |-> "13", name |-> "Doom 2", summary |-> "Hell on Earth", platforms |-> {"6"}],
    [id |-> "22", name |-> "Risk II", summary |-> "Handheld port", platforms |-> {"48"}] }

\* the titles it is called with
MatchTitles == {"Doom", "Doom 2", "Risk II"}

InitMatch ==
  /\ Quiescent
  /\ call \in {[fn |-> "fetch_igdb_data", title |-> t, response |-> r, out |-> <<>>] :
                 t \in MatchTitles,
                 r \in {[ok |-> TRUE, results |-> q] : q \in SeqsUpTo(Candidates, MaxCands)}
                        \cup {FetchError}}

\* lines 380-381: fetch_igdb_data(title, normalize_title(title), gp_game)
MatchCall ==
  /\ call.fn = "fetch_igdb_data"
  /\ call.out = <<>>
  /\ call' = [call EXCEPT !.out =
                 <<fetch_igdb_data(call.title, normalize_title(Spell[call.title]),
                                   call.response)>>]
  /\ UNCHANGED main_vars

SpecMatch == InitMatch /\ [][MatchCall]_vars

\* the words that follow the name in a title: sequel numbers, a roman
\* numeral, an edition keyword
SequelWords == {<<"2">>, <<"3">>, <<"I", "I">>, <<"H", "D">>}

\* "Doom", "Doom 2", "Doom II HD", ...
SequelTitles ==
  {Join(<<Spell["Doom"]>> \o ws) : ws \in SeqsUpTo(SequelWords, MaxWords)}

InitClassify ==
  /\ Quiescent
  /\ call \in {[fn |-> "is_confusing_match", gp_title |-> g, igdb_name |-> n,
                  out |-> <<>>] : g \in SequelTitles, n \in SequelTitles}

ClassifyCall ==
  /\ call.fn = "is_confusing_match"
  /\ call.out = <<>>
  /\ call' = [call EXCEPT !.out = <<is_confusing_match(call.gp_title, call.igdb_name)>>]
  /\ UNCHANGED main_vars

SpecClassify == InitClassify /\ [][ClassifyCall]_vars

\* ------------------------------------------------------------------------
\* Properties
\* ------------------------------------------------------------------------
\* a run has ended and nothing has happened since
RunEnded == pc = "done"

\* the run has written its games to Firestore
Written == RunEnded /\ wrote = "ok"

\* the notifications of this run, whatever became of the delivery
Events == {<<e.kind, e.id>> : e \in sent}

StoredGame(games, gid) == MapOf(games)[gid]

\* C1: when a run ends, an offer that every feed so far has reported has had
\* exactly one NewOffer notification once it has been notified or stored (an
\* offer without IGDB entry is in neither case yet).
C1_ExactlyOneNewOffer ==
  RunEnded =>
    \A gid \in everyFeed :
      (newOffers[gid] > 0 \/ gid \in IdsOf(firestore)) => newOffers[gid] = 1

\* C2: no step sends an ExpiresToday reminder for an offer whose stored game
\* has had reminder_sent = True before.
C2_NoSecondReminder ==
  [][\A e \in sent' \ sent : e.kind = "ExpiresToday" => e.id \notin flagged]_vars

\* C3: a run that writes keeps reminder_sent = True on every game that had it
\* before the run and is still in the written document.
C3_FlagsMonotonic ==
  Written =>
    \A gid \in FlaggedIn(prevStore) \cap IdsOf(firestore) : gid \in FlaggedIn(firestore)

\* a field of a game that holds a value
HoldsValue(game, key) == key \in DOMAIN game /\ game[key] \notin EmptyValues

\* the notification flags, which the merge of fields does not govern
FLAG_FIELDS == {"reminder_sent"}

\* C4: a run that writes leaves every non-volatile field that held a value in
\* the stored game of an offer the feed still reports as it was.
C4_ManualEditsKept ==
  Written =>
    \A gid \in IdsOf(prevStore) \cap IdsOf(gp_games) \cap IdsOf(firestore) :
      \A key \in DOMAIN StoredGame(prevStore, gid) \ (API_FIELDS \cup FLAG_FIELDS) :
        HoldsValue(StoredGame(prevStore, gid), key) =>
          /\ key \in DOMAIN StoredGame(firestore, gid)
          /\ StoredGame(firestore, gid)[key] = StoredGame(prevStore, gid)[key]

\* C5: when a run that fetched the feed ends, the stored game of every offer
\* that was stored before and is in the feed has the feed's volatile fields.
C5_VolatileFieldsFresh ==
  (RunEnded /\ fetched) =>
    \A gid \in IdsOf(prevStore) \cap IdsOf(gp_games) \cap IdsOf(firestore) :
      \A key \in API_FIELDS :
        Get(StoredGame(firestore, gid), key) = StoredGame(gp_games, gid)[key]

\* C6: a run whose Firestore write failed has sent no notification and has
\* left the stored document as it was.
C6_FailedWriteSendsNothing ==
  (RunEnded /\ wrote = "failed") => (sent = {} /\ firestore = prevStore)

\* the Firestore read of this run has failed
ReadFailed == pc \in {"enrich", "remind", "write", "done"} /\ fetched
                /\ ~NothingFetched(gp_games) /\ ~readOk

\* C7: a run whose Firestore read failed sends no notification and does not
\* write: the stored document stays as it was.
C7_FailedReadAborts ==
  ReadFailed => (sent = {} /\ wrote = "no" /\ firestore = prevStore)

\* C8: a run whose GamerPower request failed looks nothing up, sends nothing,
\* appends nothing to the skipped file and leaves the stored document alone.
C8_FailedFetchIsTotal ==
  (pc # "idle" /\ ~fetched) =>
    /\ pc = "done"
    /\ looked = {}
    /\ sent = {}
    /\ skipped = <<>>
    /\ wrote = "no"
    /\ firestore = prevStore

\* a run has ended on a failed GamerPower request with games stored
C8_Witness == RunEnded /\ ~fetched /\ firestore # <<>> /\ faults > 0

\* C9: when a run ends, every offer of its feed that expires today and whose
\* stored game had no reminder_sent = True before the run has had its
\* ExpiresToday reminder and is stored with reminder_sent = True.
C9_ReminderOnExpiryDay ==
  (RunEnded /\ fetched) =>
    \A k \in DOMAIN gp_games :
      LET gid == gp_games[k]["gamerpower_id"]
      IN  (is_expiring_today(gp_games[k]["expiry_date"], today)
             /\ gid \in IdsOf(prevStore) \ FlaggedIn(prevStore)) =>
            (<<"ExpiresToday", gid>> \in Events /\ gid \in FlaggedIn(firestore))

\* the feed of two offers: A ends today, within hours; B ends on a later day
TwoOfferFeed ==
  /\ IdsOf(gp_games) = {"A", "B"}
  /\ StoredGame(gp_games, "A")["expiry_date"] = today
  /\ StoredGame(gp_games, "B")["expiry_date"] > today

\* C10: the run on an empty document with that feed, both offers finding
\* their IGDB entry, has added = {A, B} and sends NewOffer(A), NewOffer(B) and
\* ExpiringSoon(A), nothing else; the run that repeats it at once sends
\* nothing.
C10_TwoOfferScenario ==
  /\ (RunEnded /\ fetched /\ prevStore = <<>> /\ TwoOfferFeed
        /\ IdsOf(enriched_games) = {"A", "B"}) =>
       /\ added_ids = {"A", "B"}
       /\ Events = {<<"NewOffer", "A">>, <<"NewOffer", "B">>, <<"ExpiringSoon", "A">>}
  /\ (RunEnded /\ rerun /\ TwoOfferFeed) => Events = {}

\* C11 as stated: a run that ended with a delivery failure has written its
\* games, and no step sends a notification whose delivery failed in an
\* earlier run.
C11_FailedDeliveryNotRepeated ==
  [][/\ (pc' = "done" /\ \E e \in sent' : ~e.ok) => wrote' = "ok"
     /\ \A e \in sent' \ sent : <<e.kind, e.id>> \notin undelivered]_vars

\* C11 amended: a delivery failure does not stop the run, which goes on to the
\* write; what it writes holds the game of each of its notifications, with
\* reminder_sent = True exactly on the reminders that were delivered; and
\* NewOffer is sent only for offers absent from the games the run read.
C11_FlagOnlyOnDelivery ==
  /\ (RunEnded /\ \E e \in sent : ~e.ok) => wrote # "no"
  /\ Written =>
       \A e \in sent :
         /\ e.id \in IdsOf(firestore)
         /\ e.kind = "ExpiresToday" => (e.id \in FlaggedIn(firestore) <=> e.ok)
  /\ \A e \in sent : e.kind = "NewOffer" => e.id \notin IdsOf(firestore_games)

\* a run has written its games after a reminder that was not delivered
C11_Witness ==
  Written /\ \E e \in sent : e.kind = "ExpiresToday" /\ ~e.ok

\* the loop of line 364 has gone through the whole feed
LoopDone == pc \in {"remind", "write", "done"} /\ idx > Len(gp_games)

\* what this run appended to the skipped file for the offer gid
SkippedReasons(gid) ==
  {skipped[k].reason : k \in {j \in DOMAIN skipped : skipped[j].id = gid}}

\* C12: once the loop is over, every offer of the feed has been processed
\* (looked up or carried over), also after a lookup that failed, and every
\* offer that was looked up and is not among the games to write has an entry
\* in the skipped file: "IGDB fetch error" when its request failed, "No strict
\* safe IGDB match" when no candidate passed.
C12_NoSilentDrop ==
  LoopDone =>
    /\ \A gid \in IdsOf(gp_games) : gid \in looked \/ gid \in IdsOf(enriched_games)
    /\ \A gid \in looked \ IdsOf(enriched_games) :
         IF gid \in failedLookups
         THEN FETCH_ERROR \in SkippedReasons(gid)
         ELSE NO_MATCH \in SkippedReasons(gid)

\* the lookup of A failed, B was enriched after it and the run has written
C12_Witness ==
  /\ Written
  /\ "A" \in failedLookups
  /\ "B" \in looked \cap IdsOf(firestore)
  /\ "A" \notin IdsOf(firestore)

\* C13: with previous the ids of the games read and current the ids of the
\* feed, added = current - previous, removed = previous - current and
\* retained = previous \cap current; the three are pairwise disjoint and
\* their union is previous \cup current.
C13_DiffPartition ==
  LET previous == IdsOf(firestore_games)
      current == IdsOf(gp_games)
  IN  /\ added_ids = current \ previous
      /\ removed_ids = previous \ current
      /\ retained_ids = previous \cap current
      /\ added_ids \cap removed_ids = {}
      /\ added_ids \cap retained_ids = {}
      /\ removed_ids \cap retained_ids = {}
      /\ added_ids \cup removed_ids \cup retained_ids = previous \cup current

\* a run went through its loop with an offer added and an offer retained
C13_Witness == LoopDone /\ added_ids # {} /\ retained_ids # {}

\* C14: normalize_title applied to its own result returns it unchanged, and
\* the empty title gives the empty text.
C14_NormalizeIdempotent ==
  /\ (call.fn = "normalize_title" /\ Len(call.out) = 2) => call.out[2] = call.out[1]
  /\ (call.fn = "normalize_title" /\ Len(call.out) >= 1 /\ call.title = <<>>) =>
       call.out[1] = <<>>

\* "I(C)I" became "2" and stayed "2"
C14_Witness ==
  /\ call.fn = "normalize_title"
  /\ call.title = <<"I", "(C)", "I">>
  /\ call.out = << <<"2">>, <<"2">> >>

\* a candidate passes the three tests of lines 198, 199 and 204
Acceptable(title, r) ==
  /\ normalize_title(Spell[r.name]) = normalize_title(Spell[title])
  /\ ~is_confusing_match(Spell[title], Spell[r.name])
  /\ r.platforms \cap PC_PLATFORMS # {}

\* the position of the first candidate that passes, if any
FirstAcceptable(title, results) ==
  {k \in DOMAIN results :
     /\ Acceptable(title, results[k])
     /\ \A j \in 1..(k - 1) : ~Acceptable(title, results[j])}

\* C15: fetch_igdb_data returns transform_igdb of the first candidate, in the
\* order of the response, whose normalized name is the normalized title, that
\* is not a confusing match and that lists platform 6, 14 or 92, whatever
\* candidates come before it; it returns {} when there is none.
C15_FirstAcceptableWins ==
  (call.fn = "fetch_igdb_data" /\ call.out # <<>> /\ call.response.ok) =>
    LET first == FirstAcceptable(call.title, call.response.results)
    IN  IF first = {}
        THEN call.out[1].data = EmptyDict
        ELSE \A k \in first :
               call.out[1].data = transform_igdb(call.response.results[k])

\* the console DOOM came first and was passed over for the PC one
C15_Witness ==
  /\ call.fn = "fetch_igdb_data"
  /\ call.out # <<>>
  /\ call.title = "Doom"
  /\ call.response.ok
  /\ Len(call.response.results) = 2
  /\ call.response.results[1].id = "12"
  /\ call.out[1].data = transform_igdb(call.response.results[2])
  /\ call.out[1].reasons = <<NON_PC>>

\* the numeric tokens of a normalized text
NumericTokens(t) ==
  LET tokens == Split(t)
  IN  {tokens[k] : k \in {j \in DOMAIN tokens :
                            \A c \in DOMAIN tokens[j] : tokens[j][c] \in Digits}}

\* C16: is_confusing_match returns True whenever the normalized IGDB name has
\* a numeric token that the normalized GamerPower title has not, whether or
\* not the title has numeric tokens of its own.
C16_NewNumberIsConfusing ==
  (call.fn = "is_confusing_match" /\ call.out # <<>>) =>
    ((NumericTokens(normalize_title(call.igdb_name))
        \ NumericTokens(normalize_title(call.gp_title)) # {})
       => call.out[1] = TRUE)

\* the run has fetched a feed, read the games and found added and removed empty
SameIds ==
  /\ pc \in {"enrich", "remind", "write", "done"}
  /\ fetched
  /\ added_ids = {}
  /\ removed_ids = {}

\* C17: a run that finds added and removed both empty ends there: it has
\* looked nothing up, appended nothing to the skipped file, sent nothing and
\* not written, and the stored document is as it was.
C17_SameIdsChangeNothing ==
  SameIds =>
    /\ pc = "done"
    /\ looked = {}
    /\ skipped = <<>>
    /\ sent = {}
    /\ wrote = "no"
    /\ firestore = prevStore

\* such a run, on a day an offer ends, with a feed whose end date is not the
\* stored one
C17_Witness ==
  /\ SameIds
  /\ firestore # <<>>
  /\ \E k \in DOMAIN gp_games :
       /\ gp_games[k]["expiry_date"] = today
       /\ StoredGame(firestore, gp_games[k]["gamerpower_id"])["expiry_date"] # today

\* C18: an offer that a run looked up without an acceptable match and left out
\* of the games it wrote is, in every following run whose feed still has it,
\* in added: the run does not return early, looks it up again, and either
\* appends a new entry to the skipped file and sends no NewOffer for it, or
\* finds an acceptable match and sends its NewOffer.
C18_UnmatchedIsAddedAgain ==
  \A gid \in unmatched :
    /\ pc \notin {"idle", "read"} => gid \in added_ids
    /\ pc = "done" => LoopDone
    /\ LoopDone =>
         /\ gid \in looked
         /\ IF gid \in IdsOf(enriched_games)
            THEN <<"NewOffer", gid>> \in Events
            ELSE /\ SkippedReasons(gid) \cap {NO_MATCH, FETCH_ERROR} # {}
                 /\ <<"NewOffer", gid>> \notin Events

\* A was left out by the first run; the second finds its match and notifies
C18_Witness ==
  /\ RunEnded
  /\ "A" \in unmatched
  /\ "A" \in IdsOf(firestore)
  /\ newOffers["A"] = 1
  /\ <<"NewOffer", "A">> \in Events

\* A was left out by the first run and is skipped again by the second
C18_WitnessSkippedAgain ==
  RunEnded /\ "A" \in unmatched /\ NO_MATCH \in SkippedReasons("A")

\* the stored game has an IGDB id and an IGDB name
HasCatalogData(game) == Truthy(Get(game, "id")) /\ Truthy(Get(game, "name"))

\* the lookup of this run for gid returned an acceptable match
Matched(gid) ==
  gid \in looked /\ SkippedReasons(gid) \cap {NO_MATCH, FETCH_ERROR} = {}

\* C19: the games a run has written are all offers of its feed, and an offer
\* that is both among the games read and in the feed is written if and only
\* if its stored game has an IGDB id and name or its lookup in this run
\* returned an acceptable match.
C19_WrittenSnapshot ==
  Written =>
    /\ IdsOf(firestore) \subseteq IdsOf(gp_games)
    /\ \A gid \in retained_ids :
         gid \in IdsOf(firestore)
           <=> (HasCatalogData(StoredGame(firestore_games, gid)) \/ Matched(gid))

\* a stored game without IGDB name whose lookup found nothing has been dropped
\* although the feed has its offer
C19_Witness ==
  /\ Written
  /\ \E gid \in retained_ids :
       /\ gid \notin IdsOf(firestore)
       /\ gid \in IdsOf(gp_games)
       /\ ~HasCatalogData(StoredGame(firestore_games, gid))
       /\ gid \in looked

\* C20: in fetch_igdb_data, is_confusing_match is False for every candidate
\* whose normalized name is the normalized title, so "Confusing match" is
\* never appended to the skipped file: a candidate of the right name is
\* rejected only for its platforms.
C20_ConfusingUnreachable ==
  (call.fn = "fetch_igdb_data" /\ call.out # <<>>) =>
    /\ \A k \in DOMAIN call.response.results :
         LET candidate_name == call.response.results[k].name
         IN  normalize_title(Spell[candidate_name]) = normalize_title(Spell[call.title])
               => ~is_confusing_match(Spell[call.title], Spell[candidate_name])
    /\ \A k \in DOMAIN call.out[1].reasons :
         call.out[1].reasons[k] \in {NON_PC, NO_MATCH, FETCH_ERROR}

\* "Risk II" was offered; the console "Risk II" was rejected for its platform
\* and "Risk 2", of the same normalized name, was taken
C20_Witness ==
  /\ call.fn = "fetch_igdb_data"
  /\ call.out # <<>>
  /\ call.title = "Risk II"
  /\ call.out[1].reasons = <<NON_PC>>
  /\ call.out[1].data = transform_igdb(CHOOSE r \in Catalog : r.id = "21")

====
